---- MODULE Spec2Model ----
(***************************************************************************)
(* Model of sub_adjust.py: the timestamp arithmetic (add_time), the SMI    *)
(* rewriter (process_smi) and the SRT rewriter (process_srt).              *)
(*                                                                         *)
(* A text line is a sequence of one-character strings, so that the regular *)
(* expressions, str.strip, str.isdigit, int() and str.format are computed  *)
(* character by character as Python computes them.                         *)
(***************************************************************************)
EXTENDS Integers, Sequences, FiniteSets, TLC

VARIABLES
    contents,          \* the input list of lines
    section_offset,    \* process_srt argument
    time_offset,       \* process_srt / process_smi argument
    pos,               \* number of lines of contents the for-loop has consumed
    section_previous,  \* <<>> models None, <<n>> models the integer n
    modified,          \* the output list
    prog,              \* what runs: "srt", "smi" or "time"
    pc,                \* "loop", "done" (returned) or "raised" (exception)
    stamp,             \* <<hours, minutes, seconds, millis>> handed to add_time
    off_a, off_b,      \* two millisecond offsets
    shift_a,           \* fields after add_time(stamp, off_a); <<>> before
    shift_ab,          \* fields after add_time(shift_a, off_b); <<>> before
    shift_sum,         \* fields after add_time(stamp, off_a + off_b); <<>> before
    text,              \* SRT_TEMPLATE.format(*stamp) --> itself, CR LF; <<>> before
    parsed             \* <<>> before; <<"nomatch">> or <<"match", h, m, s, ms>>

vars == <<contents, section_offset, time_offset, pos, section_previous,
          modified, prog, pc, stamp, off_a, off_b, shift_a, shift_ab, shift_sum,
          text, parsed>>

srtVars == <<contents, section_offset, time_offset, pos, section_previous,
             modified>>

timeVars == <<stamp, off_a, off_b, shift_a, shift_ab, shift_sum, text, parsed>>

(***************************************************************************)
(* Bounds of the explored inputs.                                          *)
(***************************************************************************)
MaxLines == 3
MaxSection == 3

(***************************************************************************)
(* Characters.                                                             *)
(***************************************************************************)
DecimalChars == <<"0", "1", "2", "3", "4", "5", "6", "7", "8", "9">>

\* The one character U+00B2 SUPERSCRIPT TWO, written here by its code point:
\* str.isdigit() is true of it, but it is no decimal digit, so \d does not
\* match it and int() rejects it.
SuperscriptTwo == "U+00B2"

\* What \d matches and int() accepts.
IsDecimal(c) == \E i \in 1..10 : DecimalChars[i] = c

DigitVal(c) == (CHOOSE i \in 1..10 : DecimalChars[i] = c) - 1

\* str.isdigit, one character.
IsDigitChar(c) == IsDecimal(c) \/ c = SuperscriptTwo

\* Characters str.strip() and int() treat as whitespace.
IsSpace(c) == c \in {" ", "\t", "\r", "\n"}

CRLF == <<"\r", "\n">>
LF == <<"\n">>

RECURSIVE LStrip(_)
LStrip(s) == IF s /= <<>> /\ IsSpace(Head(s)) THEN LStrip(Tail(s)) ELSE s

RECURSIVE RStrip(_)
RStrip(s) ==
    IF s /= <<>> /\ IsSpace(s[Len(s)]) THEN RStrip(SubSeq(s, 1, Len(s) - 1))
    ELSE s

\* str.strip()
Strip(s) == RStrip(LStrip(s))

\* str.isdigit(): non-empty and every character is a digit character.
IsDigitStr(s) == s /= <<>> /\ \A i \in 1..Len(s) : IsDigitChar(s[i])

IsSign(c) == c \in {"+", "-"}

\* The text int() reads after the whitespace and an optional sign are removed.
Unsigned(s) ==
    LET t == Strip(s) IN IF t /= <<>> /\ IsSign(Head(t)) THEN Tail(t) ELSE t

\* int(s) succeeds: whitespace, an optional sign, a non-empty run of decimals,
\* whitespace.
IntParses(s) ==
    LET t == Unsigned(s) IN t /= <<>> /\ \A i \in 1..Len(t) : IsDecimal(t[i])

RECURSIVE DecimalValue(_)
DecimalValue(t) ==
    IF t = <<>> THEN 0
    ELSE 10 * DecimalValue(SubSeq(t, 1, Len(t) - 1)) + DigitVal(t[Len(t)])

\* int(s), defined where IntParses(s).
IntOf(s) ==
    LET t == Strip(s)
    IN  IF t /= <<>> /\ Head(t) = "-" THEN -DecimalValue(Unsigned(s))
        ELSE DecimalValue(Unsigned(s))

RECURSIVE NatToStr(_)
NatToStr(n) ==
    IF n < 10 THEN <<DecimalChars[n + 1]>>
    ELSE NatToStr(n \div 10) \o <<DecimalChars[(n % 10) + 1]>>

\* str(n) for an integer, as '{}' and '%s' render it.
IntToStr(n) == IF n < 0 THEN <<"-">> \o NatToStr(-n) ELSE NatToStr(n)

\* The format spec {:0>w}: right-align in width w, filling with "0"; never
\* truncates.
RECURSIVE PadLeft(_, _)
PadLeft(s, w) == IF Len(s) >= w THEN s ELSE PadLeft(<<"0">> \o s, w)

(***************************************************************************)
(* SRT timestamps.                                                         *)
(***************************************************************************)
\* The template with the milliseconds padded to two places only.
SRT_TEMPLATE_ShortMillis(h, m, s, ms) ==
    PadLeft(IntToStr(h), 2) \o <<":">> \o PadLeft(IntToStr(m), 2) \o <<":">>
    \o PadLeft(IntToStr(s), 2) \o <<",">> \o PadLeft(IntToStr(ms), 2)

\* SRT_TEMPLATE.format(hours, minutes, seconds, millis)
SRT_TEMPLATE(h, m, s, ms) ==
    PadLeft(IntToStr(h), 2) \o <<":">> \o PadLeft(IntToStr(m), 2) \o <<":">>
    \o PadLeft(IntToStr(s), 2) \o <<",">> \o PadLeft(IntToStr(ms), 3)

\* divmod with the quotient rounded toward zero, as C's / and % compute it.
DivModTrunc(a, b) ==
    IF a >= 0 THEN <<a \div b, a % b>>
    ELSE <<-((-a) \div b), -((-a) % b)>>

\* Python's divmod(a, b) for b > 0: floor quotient, remainder in 0..b-1.
DivMod(a, b) == <<a \div b, a % b>>

\* add_time with the hours weighted as 360000 ms.
AddTimeFieldsShortHour(h, m, s, ms, milli_offset) ==
    LET total == ms + ((h * 360000) + (m * 60000) + (s * 1000) + milli_offset)
        hd == DivMod(total, 3600000)
        md == DivMod(hd[2], 60000)
        sd == DivMod(md[2], 1000)
    IN  <<hd[1], md[1], sd[1], sd[2]>>

\* The fields add_time computes before it formats them.
AddTimeFields(h, m, s, ms, milli_offset) ==
    LET total == ms + ((h * 3600000) + (m * 60000) + (s * 1000) + milli_offset)
        hd == DivMod(total, 3600000)
        md == DivMod(hd[2], 60000)
        sd == DivMod(md[2], 1000)
    IN  <<hd[1], md[1], sd[1], sd[2]>>

add_time(h, m, s, ms, milli_offset) ==
    LET f == AddTimeFields(h, m, s, ms, milli_offset)
    IN  SRT_TEMPLATE(f[1], f[2], f[3], f[4])

Arrow == <<" ", "-", "-", ">", " ">>

\* SRT_PATTERN matched at position p of line: dd:dd:dd,ddd
SRT_PATTERN(line, p) ==
    /\ Len(line) >= p + 11
    /\ \A k \in {0, 1, 3, 4, 6, 7, 9, 10, 11} : IsDecimal(line[p + k])
    /\ line[p + 2] = ":"
    /\ line[p + 5] = ":"
    /\ line[p + 8] = ","

\* time_prog.match(line): '{pat} --> {pat}' anchored at the start of line.
time_prog(line) ==
    /\ SRT_PATTERN(line, 1)
    /\ Len(line) >= 17
    /\ SubSeq(line, 13, 17) = Arrow
    /\ SRT_PATTERN(line, 18)

\* int(result.group(1..4)) for the timestamp at position p.
StampAt(line, p) ==
    << IntOf(SubSeq(line, p, p + 1)), IntOf(SubSeq(line, p + 3, p + 4)),
       IntOf(SubSeq(line, p + 6, p + 7)), IntOf(SubSeq(line, p + 9, p + 11)) >>

\* The time-range line process_srt emits.
TimeRangeLine(line, offset) ==
    LET st == StampAt(line, 1)
        en == StampAt(line, 18)
    IN  add_time(st[1], st[2], st[3], st[4], offset) \o Arrow
        \o add_time(en[1], en[2], en[3], en[4], offset) \o CRLF

(***************************************************************************)
(* add_time, SRT_TEMPLATE and SRT_PATTERN on their own.                    *)
(***************************************************************************)
HourSet == {0, 1, 99, 100}
MinuteSet == {0, 59, 61}
SecondSet == {0, 1, 59}
MilliSet == {0, 500, 999}
MilliOffsets == {-3661000, -500, 0, 500, 3661000}

IdleSrt ==
    /\ contents = <<>>
    /\ section_offset = 0
    /\ time_offset = 0
    /\ pos = 0
    /\ section_previous = <<>>
    /\ modified = <<>>

IdleTime ==
    /\ stamp = <<0, 0, 0, 0>>
    /\ off_a = 0
    /\ off_b = 0
    /\ shift_a = <<>>
    /\ shift_ab = <<>>
    /\ shift_sum = <<>>
    /\ text = <<>>
    /\ parsed = <<>>

InitTime ==
    /\ IdleSrt
    /\ prog = "time"
    /\ pc = "loop"
    /\ stamp \in HourSet \X MinuteSet \X SecondSet \X MilliSet
    /\ off_a \in MilliOffsets
    /\ off_b \in MilliOffsets
    /\ shift_a = <<>>
    /\ shift_ab = <<>>
    /\ shift_sum = <<>>
    /\ text = <<>>
    /\ parsed = <<>>

\* add_time(stamp, off_a)
ShiftA ==
    /\ prog = "time"
    /\ shift_a = <<>>
    /\ shift_a' = AddTimeFields(stamp[1], stamp[2], stamp[3], stamp[4], off_a)
    /\ UNCHANGED <<stamp, off_a, off_b, shift_ab, shift_sum, text, parsed>>
    /\ UNCHANGED <<srtVars, prog, pc>>

\* add_time(add_time(stamp, off_a), off_b)
ShiftAB ==
    /\ prog = "time"
    /\ shift_a /= <<>>
    /\ shift_ab = <<>>
    /\ shift_ab' =
           AddTimeFields(shift_a[1], shift_a[2], shift_a[3], shift_a[4], off_b)
    /\ UNCHANGED <<stamp, off_a, off_b, shift_a, shift_sum, text, parsed>>
    /\ UNCHANGED <<srtVars, prog, pc>>

\* add_time(stamp, off_a + off_b)
ShiftSum ==
    /\ prog = "time"
    /\ shift_sum = <<>>
    /\ shift_sum' =
           AddTimeFields(stamp[1], stamp[2], stamp[3], stamp[4], off_a + off_b)
    /\ UNCHANGED <<stamp, off_a, off_b, shift_a, shift_ab, text, parsed>>
    /\ UNCHANGED <<srtVars, prog, pc>>

\* '{} --> {}\r\n'.format(t, t) with t = SRT_TEMPLATE.format(*stamp)
FormatStamp ==
    /\ prog = "time"
    /\ text = <<>>
    /\ text' = LET t == SRT_TEMPLATE(stamp[1], stamp[2], stamp[3], stamp[4])
               IN  t \o Arrow \o t \o CRLF
    /\ UNCHANGED <<stamp, off_a, off_b, shift_a, shift_ab, shift_sum, parsed>>
    /\ UNCHANGED <<srtVars, prog, pc>>

\* time_prog.match(text) and the int() of its first four groups
ParseStamp ==
    /\ prog = "time"
    /\ text /= <<>>
    /\ parsed = <<>>
    /\ parsed' = IF time_prog(text) THEN <<"match">> \o StampAt(text, 1)
                 ELSE <<"nomatch">>
    /\ UNCHANGED <<stamp, off_a, off_b, shift_a, shift_ab, shift_sum, text>>
    /\ UNCHANGED <<srtVars, prog, pc>>

NextTime == ShiftA \/ ShiftAB \/ ShiftSum \/ FormatStamp \/ ParseStamp

SpecTime == InitTime /\ [][NextTime]_vars

\* The flattened total add_time computes for stamp and an offset.
TotalMillis(t, offset) ==
    offset + t[4] + t[3] * 1000 + t[2] * 60000 + t[1] * 3600000

\* C4: for a timestamp of non-negative integers and a signed offset, the
\* fields add_time computes have minutes and seconds in 0..59, milliseconds
\* in 0..999 and flatten to offset + the input's total; a negative total
\* shows up as negative hours only.
C4_AddTimeNormalises ==
    shift_a /= <<>> =>
        /\ shift_a[2] \in 0..59
        /\ shift_a[3] \in 0..59
        /\ shift_a[4] \in 0..999
        /\ TotalMillis(shift_a, 0) = TotalMillis(stamp, off_a)
        /\ (TotalMillis(stamp, off_a) < 0 <=> shift_a[1] < 0)

\* add_time has acted on a total below zero and borrowed into the hours.
C4_Witness ==
    /\ shift_a /= <<>>
    /\ TotalMillis(stamp, off_a) < 0
    /\ shift_a[1] = -1
    /\ shift_a[4] = 500

InRangeStamp(t) ==
    /\ t[1] >= 0
    /\ t[2] \in 0..59
    /\ t[3] \in 0..59
    /\ t[4] \in 0..999

\* C6 as stated: any in-range tuple, whatever its hours, is read back from
\* its formatted text.
C6_RoundTripAnyHours ==
    (parsed /= <<>> /\ InRangeStamp(stamp)) => parsed = <<"match">> \o stamp

\* C6: an in-range tuple with hours below 100 is read back from its
\* formatted text.
C6_RoundTripTwoDigitHours ==
    (parsed /= <<>> /\ InRangeStamp(stamp) /\ stamp[1] < 100)
    => parsed = <<"match">> \o stamp

\* The largest two-digit-hour timestamp was formatted and read back.
C6_Witness ==
    /\ parsed = <<"match", 99, 59, 59, 999>>
    /\ stamp = <<99, 59, 59, 999>>
    /\ Len(text) = 31

(***************************************************************************)
(* process_srt                                                             *)
(***************************************************************************)
\* Python truth value of section_previous: None and 0 are both false.
Truthy(prev) == prev /= <<>> /\ prev[1] /= 0

\* The repair with section_previous already overwritten by the candidate.
RepairSectionAfterUpdate(prev, candidate) ==
    IF Truthy(<<candidate>>) THEN candidate + 1 ELSE candidate

\* Lines 91-92: the section number after the repair rule.
RepairSection(prev, candidate) ==
    IF Truthy(prev) /\ candidate /= prev[1] + 1 THEN prev[1] + 1
    ELSE candidate

\* Line 88: the elif branch is reached and line.strip().isdigit() holds.
IsSectionLine(line) == ~time_prog(line) /\ IsDigitStr(Strip(line))

\* Lines 89-92: int(line) + section_offset, repaired.
SectionNumber(line, prev, offset) == RepairSection(prev, IntOf(line) + offset)

\* The section line terminated by a bare newline.
SectionLineNoCR(n) == IntToStr(n) \o LF

\* Line 94: '%s\r\n' % section_number
SectionLine(n) == IntToStr(n) \o CRLF

CanonicalTime == SRT_TEMPLATE(0, 0, 1, 0) \o Arrow \o SRT_TEMPLATE(0, 0, 2, 500)

SrtLines ==
    { IntToStr(n) \o CRLF : n \in 0..MaxSection }
    \cup { <<" ", "0", "2", " ", "\n">>,
           <<SuperscriptTwo>> \o CRLF,
           CanonicalTime \o CRLF,
           CanonicalTime \o LF,
           <<"0", "0", ":", "6", "1", ":", "0", "0", ",", "0", "0", "0", " ", "-", "-", ">", " ", "0", "0", ":", "6", "1", ":", "0", "1", ",", "0", "0", "0", " ", "X", "1", "\r", "\n">>,
           <<"H", "i", "\n">> }

SectionOffsets == {-1, 0, 1}
TimeOffsets == {-1500, 0, 3661000}

\* All sequences over S of length 1..n.
RECURSIVE SeqsUpTo(_, _)
SeqsUpTo(S, n) ==
    IF n = 0 THEN {}
    ELSE LET shorter == SeqsUpTo(S, n - 1)
         IN  { <<x>> : x \in S } \cup shorter
             \cup { Append(q, x) : q \in shorter, x \in S }

InitSrt ==
    /\ IdleTime
    /\ prog = "srt"
    /\ pc = "loop"
    /\ contents \in SeqsUpTo(SrtLines, MaxLines)
    /\ section_offset \in SectionOffsets
    /\ time_offset \in TimeOffsets
    /\ pos = 0
    /\ section_previous = <<>>
    /\ modified = <<>>

\* Lines 76-87 and 95: the line is a time range.
SrtTimeRange ==
    /\ prog = "srt"
    /\ pc = "loop"
    /\ pos < Len(contents)
    /\ LET line == contents[pos + 1] IN
        /\ time_prog(line)
        /\ modified' = Append(modified, TimeRangeLine(line, time_offset))
    /\ pos' = pos + 1
    /\ UNCHANGED <<contents, section_offset, time_offset, section_previous,
                   prog, pc>>
    /\ UNCHANGED timeVars

\* Lines 88-95: the line is a section number and int(line) succeeds.
SrtSection ==
    /\ prog = "srt"
    /\ pc = "loop"
    /\ pos < Len(contents)
    /\ LET line == contents[pos + 1] IN
        /\ IsSectionLine(line)
        /\ IntParses(line)
        /\ LET section_number ==
                   SectionNumber(line, section_previous, section_offset)
           IN  /\ section_previous' = <<section_number>>
               /\ modified' = Append(modified, SectionLine(section_number))
    /\ pos' = pos + 1
    /\ UNCHANGED <<contents, section_offset, time_offset, prog, pc>>
    /\ UNCHANGED timeVars

\* Lines 88-89: the line passes isdigit() but int(line) raises ValueError,
\* which nothing catches.
SrtSectionRaises ==
    /\ prog = "srt"
    /\ pc = "loop"
    /\ pos < Len(contents)
    /\ LET line == contents[pos + 1] IN
        /\ IsSectionLine(line)
        /\ ~IntParses(line)
    /\ pc' = "raised"
    /\ UNCHANGED <<srtVars, prog>>
    /\ UNCHANGED timeVars

\* The pass-through step with the append left inside the branches.
SrtOtherNoAppend ==
    /\ prog = "srt"
    /\ pc = "loop"
    /\ pos < Len(contents)
    /\ LET line == contents[pos + 1] IN
        /\ ~time_prog(line)
        /\ ~IsSectionLine(line)
    /\ pos' = pos + 1
    /\ UNCHANGED <<contents, section_offset, time_offset, section_previous,
                   modified, prog, pc>>
    /\ UNCHANGED timeVars

\* Line 95 alone: neither branch is taken.
SrtOther ==
    /\ prog = "srt"
    /\ pc = "loop"
    /\ pos < Len(contents)
    /\ LET line == contents[pos + 1] IN
        /\ ~time_prog(line)
        /\ ~IsSectionLine(line)
        /\ modified' = Append(modified, line)
    /\ pos' = pos + 1
    /\ UNCHANGED <<contents, section_offset, time_offset, section_previous,
                   prog, pc>>
    /\ UNCHANGED timeVars

\* Line 96: the loop is exhausted.
SrtReturn ==
    /\ prog = "srt"
    /\ pc = "loop"
    /\ pos = Len(contents)
    /\ pc' = "done"
    /\ UNCHANGED <<srtVars, prog>>
    /\ UNCHANGED timeVars

(***************************************************************************)
(* process_smi                                                             *)
(***************************************************************************)
SyncPrefix == <<"<", "S", "Y", "N", "C", " ", "S", "t", "a", "r", "t", "=">>

\* The length of the run of decimals of line that starts at position p.
RECURSIVE DigitRun(_, _)
DigitRun(line, p) ==
    IF p <= Len(line) /\ IsDecimal(line[p]) THEN 1 + DigitRun(line, p + 1)
    ELSE 0

\* re.compile(SMI_PATTERN).match(line): the prefix, \d+ and > at line start.
SMI_PATTERN(line) ==
    /\ Len(line) >= 12
    /\ SubSeq(line, 1, 12) = SyncPrefix
    /\ DigitRun(line, 13) >= 1
    /\ Len(line) >= 13 + DigitRun(line, 13)
    /\ line[13 + DigitRun(line, 13)] = ">"

\* int(result.group(1))
SyncStart(line) == IntOf(SubSeq(line, 13, 12 + DigitRun(line, 13)))

\* The template without the carriage return.
SMI_TEMPLATE_NoCR(n) == SyncPrefix \o IntToStr(n) \o <<">">> \o LF

\* SMI_TEMPLATE.format(new_time)
SMI_TEMPLATE(n) == SyncPrefix \o IntToStr(n) \o <<">">> \o CRLF

SmiLines ==
    { <<"<", "S", "Y", "N", "C", " ", "S", "t", "a", "r", "t", "=", "1", "0", "0", "0", ">", "\r", "\n">>,
      <<"<", "S", "Y", "N", "C", " ", "S", "t", "a", "r", "t", "=", "0", ">", "\n">>,
      <<"<", "S", "Y", "N", "C", " ", "S", "t", "a", "r", "t", "=", "5", ">", "<", "P", ">", "H", "i", "\r", "\n">>,
      <<"<", "S", "Y", "N", "C", " ", "S", "t", "a", "r", "t", "=", ">", "\r", "\n">>,
      <<" ", "<", "S", "Y", "N", "C", " ", "S", "t", "a", "r", "t", "=", "7", ">", "\r", "\n">>,
      <<"<", "S", "Y", "N", "C", " ", "S", "t", "a", "r", "t", "=", "1", "2", "\r", "\n">>,
      SyncPrefix \o <<SuperscriptTwo, ">">> \o CRLF,
      <<"H", "e", "l", "l", "o", "\r", "\n">> }

SmiOffsets == {-2000, 0, 2000}

InitSmi ==
    /\ IdleTime
    /\ prog = "smi"
    /\ pc = "loop"
    /\ contents \in SeqsUpTo(SmiLines, MaxLines)
    /\ section_offset = 0
    /\ time_offset \in SmiOffsets
    /\ pos = 0
    /\ section_previous = <<>>
    /\ modified = <<>>

\* Lines 51-56: the line matches.
SmiSync ==
    /\ prog = "smi"
    /\ pc = "loop"
    /\ pos < Len(contents)
    /\ LET line == contents[pos + 1] IN
        /\ SMI_PATTERN(line)
        /\ modified' =
               Append(modified, SMI_TEMPLATE(SyncStart(line) + time_offset))
    /\ pos' = pos + 1
    /\ UNCHANGED <<contents, section_offset, time_offset, section_previous,
                   prog, pc>>
    /\ UNCHANGED timeVars

\* Lines 51, 56: the line does not match.
SmiOther ==
    /\ prog = "smi"
    /\ pc = "loop"
    /\ pos < Len(contents)
    /\ LET line == contents[pos + 1] IN
        /\ ~SMI_PATTERN(line)
        /\ modified' = Append(modified, line)
    /\ pos' = pos + 1
    /\ UNCHANGED <<contents, section_offset, time_offset, section_previous,
                   prog, pc>>
    /\ UNCHANGED timeVars

\* Line 57
SmiReturn ==
    /\ prog = "smi"
    /\ pc = "loop"
    /\ pos = Len(contents)
    /\ pc' = "done"
    /\ UNCHANGED <<srtVars, prog>>
    /\ UNCHANGED timeVars

(***************************************************************************)
(* The two rewriters, as main() dispatches to them.                        *)
(***************************************************************************)
Init == InitSrt \/ InitSmi

Next ==
    \/ SrtTimeRange
    \/ SrtSection
    \/ SrtSectionRaises
    \/ SrtOther
    \/ SrtReturn
    \/ SmiSync
    \/ SmiOther
    \/ SmiReturn

Spec == Init /\ [][Next]_vars

(***************************************************************************)
(* Properties of process_srt.                                              *)
(***************************************************************************)
\* Positions of the processed section-number lines.
SectionIdx ==
    IF prog = "srt"
    THEN { i \in 1..Len(modified) : IsSectionLine(contents[i]) }
    ELSE {}

\* j is the section-number line that follows section-number line i.
NextSection(i, j) ==
    /\ i \in SectionIdx
    /\ j \in SectionIdx
    /\ i < j
    /\ ~\E k \in SectionIdx : i < k /\ k < j

\* The section number written at position i of the output.
Emitted(i) == IntOf(modified[i])

\* C1: every emitted section number after the first is the previously
\* emitted one plus 1, also when the previous one is 0.
C1_StrictContinuity ==
    \A i, j \in 1..Len(modified) :
        NextSection(i, j) => Emitted(j) = Emitted(i) + 1

\* C2 as stated: with section_offset = 0 and strictly increasing section
\* numbers in the input, the emitted numbers are the input numbers.
C2_IncreasingUnchanged ==
    ( /\ prog = "srt"
      /\ pc = "done"
      /\ section_offset = 0
      /\ \A i, j \in SectionIdx :
             i < j => IntOf(contents[i]) < IntOf(contents[j]) )
    => \A i \in SectionIdx : Emitted(i) = IntOf(contents[i])

\* C2: with section_offset = 0 and input section numbers that each exceed
\* the one before by exactly 1, the emitted numbers are the input numbers.
C2_ConsecutiveUnchanged ==
    ( /\ prog = "srt"
      /\ pc = "done"
      /\ section_offset = 0
      /\ \A i, j \in 1..Len(contents) :
             NextSection(i, j) => IntOf(contents[j]) = IntOf(contents[i]) + 1 )
    => \A i \in SectionIdx : Emitted(i) = IntOf(contents[i])

\* Sections 1, 2, 3 were processed with section_offset = 0, the second one
\* written with padding.
C2_Witness ==
    /\ prog = "srt"
    /\ pc = "done"
    /\ section_offset = 0
    /\ contents = << <<"1">> \o CRLF, <<" ", "0", "2", " ", "\n">>, <<"3">> \o CRLF >>
    /\ modified = << <<"1">> \o CRLF, <<"2">> \o CRLF, <<"3">> \o CRLF >>

IsTerminator(t) == t = CRLF \/ t = LF

\* A time-range line and nothing else: both timestamps in range, then the
\* line terminator.
WellFormedTime(line) ==
    /\ time_prog(line)
    /\ IsTerminator(SubSeq(line, 30, Len(line)))
    /\ InRangeStamp(StampAt(line, 1))
    /\ InRangeStamp(StampAt(line, 18))

\* A decimal numeral without sign, padding or leading zero, then the line
\* terminator.
WellFormedSection(line) ==
    \E n \in 1..Len(line) :
        /\ \A i \in 1..n : IsDecimal(line[i])
        /\ n > 1 => line[1] /= "0"
        /\ IsTerminator(SubSeq(line, n + 1, Len(line)))

\* A well-formed SRT line sequence: time ranges and section numbers in the
\* format's own form, sections numbered consecutively, any other text.
WellFormedSrt(lines) ==
    /\ \A i \in 1..Len(lines) :
           \/ WellFormedTime(lines[i])
           \/ WellFormedSection(lines[i])
           \/ (~time_prog(lines[i]) /\ ~IsDigitStr(Strip(lines[i])))
    /\ \A i, j \in 1..Len(lines) :
           ( /\ WellFormedSection(lines[i])
             /\ WellFormedSection(lines[j])
             /\ i < j
             /\ ~\E k \in (i + 1)..(j - 1) : WellFormedSection(lines[k]) )
           => IntOf(lines[j]) = IntOf(lines[i]) + 1

\* Every time-range line and section-number line ends with CR LF.
CrLfTerminated(lines) ==
    \A i \in 1..Len(lines) :
        (time_prog(lines[i]) \/ IsDigitStr(Strip(lines[i])))
        => (Len(lines[i]) >= 2
            /\ SubSeq(lines[i], Len(lines[i]) - 1, Len(lines[i])) = CRLF)

\* C3 as stated: process_srt(lines, 0, 0) returns lines for every
\* well-formed SRT line sequence.
C3_ZeroOffsetIdentity ==
    ( /\ prog = "srt"
      /\ pc = "done"
      /\ section_offset = 0
      /\ time_offset = 0
      /\ WellFormedSrt(contents) )
    => modified = contents

\* C3: process_srt(lines, 0, 0) returns lines for every well-formed SRT line
\* sequence whose time-range and section-number lines end with CR LF.
C3_ZeroOffsetIdentityCrLf ==
    ( /\ prog = "srt"
      /\ pc = "done"
      /\ section_offset = 0
      /\ time_offset = 0
      /\ WellFormedSrt(contents)
      /\ CrLfTerminated(contents) )
    => modified = contents

\* A section number, its time range and a caption came back unchanged.
C3_Witness ==
    /\ prog = "srt"
    /\ pc = "done"
    /\ section_offset = 0
    /\ time_offset = 0
    /\ contents = << <<"1">> \o CRLF, CanonicalTime \o CRLF, <<"H", "i", "\n">> >>
    /\ modified = contents

\* C8: neither rewriter raises: a line taken for a section number is always
\* parsed as an integer, so no run ends in an exception.
C8_NeverFails == pc /= "raised"

\* C10: section_previous starts absent; a step over a time-range or other
\* line leaves it unchanged; the first section line is emitted as
\* n + section_offset and every later one as the last emitted number + 1.
C10_PreviousSectionFrame ==
    /\ section_previous = <<>>
    /\ [][ (prog = "srt" /\ pos' = pos + 1) =>
             IF IsSectionLine(contents[pos + 1])
             THEN /\ section_previous' = <<IntOf(modified'[pos + 1])>>
                  /\ IF section_previous = <<>>
                     THEN section_previous'[1] =
                              IntOf(contents[pos + 1]) + section_offset
                     ELSE section_previous'[1] = section_previous[1] + 1
             ELSE section_previous' = section_previous ]_vars

(***************************************************************************)
(* Properties of process_smi and of both rewriters.                        *)
(***************************************************************************)
\* line starts with <SYNC Start=, k >= 1 decimals and >.
StartsWithSync(line, k) ==
    /\ k >= 1
    /\ Len(line) >= 13 + k
    /\ SubSeq(line, 1, 12) = SyncPrefix
    /\ \A i \in 13..(12 + k) : IsDecimal(line[i])
    /\ line[13 + k] = ">"

\* C7: a line that does not start with the marker is output as it is; one
\* that does, with number N, becomes the marker for N + time_offset and
\* CR LF, and nothing else.
C7_SmiLineMap ==
    prog = "smi" =>
        \A i \in 1..Len(modified) :
            IF \E k \in 1..Len(contents[i]) : StartsWithSync(contents[i], k)
            THEN \E k \in 1..Len(contents[i]) :
                     /\ StartsWithSync(contents[i], k)
                     /\ modified[i] =
                            SyncPrefix
                            \o IntToStr(DecimalValue(SubSeq(contents[i], 13, 12 + k))
                                        + time_offset)
                            \o <<">", "\r", "\n">>
            ELSE modified[i] = contents[i]

\* A marker with trailing text was shifted below zero, a marker ending in
\* LF was rewritten and an indented marker passed through.
C7_Witness ==
    /\ prog = "smi"
    /\ pc = "done"
    /\ time_offset = -2000
    /\ contents = << <<"<", "S", "Y", "N", "C", " ", "S", "t", "a", "r", "t", "=", "5", ">", "<", "P", ">", "H", "i", "\r", "\n">>, <<"<", "S", "Y", "N", "C", " ", "S", "t", "a", "r", "t", "=", "0", ">", "\n">>, <<" ", "<", "S", "Y", "N", "C", " ", "S", "t", "a", "r", "t", "=", "7", ">", "\r", "\n">> >>
    /\ modified = << <<"<", "S", "Y", "N", "C", " ", "S", "t", "a", "r", "t", "=", "-", "1", "9", "9", "5", ">", "\r", "\n">>, <<"<", "S", "Y", "N", "C", " ", "S", "t", "a", "r", "t", "=", "-", "2", "0", "0", "0", ">", "\r", "\n">>, <<" ", "<", "S", "Y", "N", "C", " ", "S", "t", "a", "r", "t", "=", "7", ">", "\r", "\n">> >>

\* C9: the output grows by one line per input line consumed, a returned
\* output is as long as the input, and output line i comes from input line
\* i: itself, its shifted time range, a section number, or its shifted
\* marker.
C9_OneToOne ==
    /\ Len(modified) = pos
    /\ pc = "done" => Len(modified) = Len(contents)
    /\ prog = "srt" =>
           \A i \in 1..Len(modified) :
               IF time_prog(contents[i])
               THEN modified[i] = TimeRangeLine(contents[i], time_offset)
               ELSE IF IsSectionLine(contents[i])
                    THEN /\ IntParses(modified[i])
                         /\ modified[i] = IntToStr(IntOf(modified[i])) \o CRLF
                    ELSE modified[i] = contents[i]
    /\ prog = "smi" =>
           \A i \in 1..Len(modified) :
               IF SMI_PATTERN(contents[i])
               THEN modified[i] = SMI_TEMPLATE(SyncStart(contents[i]) + time_offset)
               ELSE modified[i] = contents[i]

\* process_srt returned three lines for a caption, a time range and a
\* section number, in that order.
C9_Witness ==
    /\ prog = "srt"
    /\ pc = "done"
    /\ time_offset = 3661000
    /\ section_offset = 1
    /\ contents = << <<"H", "i", "\n">>, CanonicalTime \o CRLF, <<"3">> \o CRLF >>
    /\ modified = << <<"H", "i", "\n">>, <<"0", "1", ":", "0", "1", ":", "0", "2", ",", "0", "0", "0", " ", "-", "-", ">", " ", "0", "1", ":", "0", "1", ":", "0", "3", ",", "5", "0", "0", "\r", "\n">>, <<"4">> \o CRLF >>

====
